---- MODULE Spec2Model ----
(***************************************************************************)
(* Model of pulsar's redis task backend                                    *)
(* (src/pulsar/apps/tasks/backends/redis.py).                              *)
(*                                                                         *)
(* Several backend processes share one store (the TaskData records and the *)
(* TaskData.queue list) and one pub/sub channel, 'task_done'.  Every       *)
(* backend method is a generator that suspends at each store call, so a    *)
(* method is modelled as a coroutine: one action per store call (the       *)
(* effect of the call on the store, together with the process-local code   *)
(* that only prepares the next call), and one action for each continuation *)
(* that touches state of the process (watched_tasks, pubsub) or returns.   *)
(* Coroutines of the same process and of different processes interleave    *)
(* at these points.  A method's first action is its first store call: the  *)
(* code before it is task_manager(), which subscribes the process to       *)
(* 'task_done' on first use, and a message that would reach the process    *)
(* between the two finds nothing in its watched_tasks.                     *)
(***************************************************************************)
EXTENDS Integers, Sequences, FiniteSets, TLC

VARIABLES store, queue, inbox, subscribed, watched, handle, co, last, pushed, delivered,
          order, touched

vars == <<store, queue, inbox, subscribed, watched, handle, co, last, pushed, delivered,
          order, touched>>

\* ---------------------------------------------------------------- bounds
NumProcs == 2
NumIds == 1
\* Calls of the backend's methods, and runs of the pubsub callback (write).
MaxOps == 3
MaxCallbacks == 1

Procs == 1..NumProcs
Ids == 1..NumIds
Calls == 1..MaxOps
Callbacks == (MaxOps + 1)..(MaxOps + MaxCallbacks)
Ops == Calls \cup Callbacks

\* ---------------------------------------------------------------- states
QUEUED == "QUEUED"
STARTED == "STARTED"
SUCCESS == "SUCCESS"
FAILURE == "FAILURE"
REVOKED == "REVOKED"

NonTerminal == {QUEUED, STARTED}
Terminal == {SUCCESS, FAILURE, REVOKED}
Statuses == NonTerminal \cup Terminal

\* A field of TaskData that was never set.
Unset == "unset"
\* A keyword argument that a call does not supply.
NoParam == "noparam"

\* ---------------------------------------------------------------- records
\* "No record": what _get_task yields when the filter matches nothing.
NoRec == [status |-> "absent", result |-> Unset, meta |-> {}]

Present(r) == r.status # "absent"

\* Task.done(): the task is in a terminal state.
Done(task) == task.status \in Terminal

\* The record a process holds after loading TaskData by id.
GetRecord(st, id) == st[id]

\* TaskData.as_task(): the scalar fields and meta of the record.
AsTask(id, r) == [id |-> id, status |-> r.status, result |-> r.result, meta |-> r.meta]

\* ---------------------------------------------------------------- save_task's keyword arguments
\* The keyword arguments of one save_task call: a status, a result and one
\* key that is not a TaskData field, each supplied or not.  The calls a worker
\* makes: back to QUEUED, STARTED, SUCCESS with its result, FAILURE, and a
\* call that gives a result and an unknown key but no status.
SaveParams ==
    { [status |-> QUEUED, result |-> NoParam, extra |-> NoParam],
      [status |-> STARTED, result |-> NoParam, extra |-> NoParam],
      [status |-> SUCCESS, result |-> "r", extra |-> NoParam],
      [status |-> FAILURE, result |-> NoParam, extra |-> NoParam],
      [status |-> NoParam, result |-> "r", extra |-> "k"] }

NoParams == [status |-> NoParam, result |-> NoParam, extra |-> NoParam]

\* save_task on an existing record: a keyword that is a field of TaskData is
\* set on the record, any other keyword goes into the meta json field.
ApplyParams(r, ps) ==
    [status |-> IF ps.status = NoParam THEN r.status ELSE ps.status,
     result |-> IF ps.result = NoParam THEN r.result ELSE ps.result,
     meta   |-> IF ps.extra = NoParam THEN r.meta ELSE r.meta \cup {ps.extra}]

\* save_task on an unknown id: task_manager.new(id=task_id, **params).  The
\* keywords that are fields of TaskData are set on the new record.  Only the
\* branch for an existing record puts the other keywords into meta; here
\* they go to the TaskData constructor, which has no field for them.
NewRecord(ps) ==
    [status |-> IF ps.status = NoParam THEN Unset ELSE ps.status,
     result |-> IF ps.result = NoParam THEN Unset ELSE ps.result,
     meta   |-> {}]

\* What the constructor (stdnet) does with a keyword that is not a field of
\* TaskData is not in this code: it ignores the keyword or refuses the call.
NewOutcomes(r, ps) ==
    IF Present(r) \/ ps.extra = NoParam THEN {"taken"} ELSE {"ignored", "refused"}

\* put_task: task_data.status = states.QUEUED.
SetQueued(r) == [r EXCEPT !.status = QUEUED]

\* ---------------------------------------------------------------- the ready-queue
\* A push that puts the entry at the front of the list.
PushFront(q, id, k) == <<[id |-> id, push |-> k]>> \o q

\* An entry of TaskData.queue: the task id, tagged with the put_task call
\* that pushed it.  The tag is bookkeeping of the model (the list holds ids),
\* and so are pushed, the id each put_task call pushed, and delivered, the
\* number of times block_pop_front handed each push to a caller.
PushBack(q, id, k) == Append(q, [id |-> id, push |-> k])

\* A block_pop_front that returns the front entry and leaves it in the list.
PopFrontPeek(q) == q

\* block_pop_front removes the entry it returns.
PopFront(q) == Tail(q)

\* More bookkeeping of the model.  order: the pushes that no caller has
\* popped yet, in the order the store served them.  touched: the pushes whose
\* record a save_task or a delete_tasks has written between the save of the
\* put_task and the load of the get_task that popped the push.
Without(o, t) == SelectSeq(o, LAMBDA u : u # t)

\* The pushes of ids whose put_task has saved the record and whose dequeuer,
\* if there is one yet, has not loaded it.
Underway(ids) ==
    { t \in Calls :
        \/ co[t].op = "put" /\ co[t].pc = "put_push" /\ co[t].id \in ids
        \/ /\ pushed[t] \in ids
           /\ \/ \E i \in 1..Len(queue) : queue[i].push = t
              \/ \E k \in Calls : co[k].pc = "get_read" /\ co[k].tag = t }

\* ---------------------------------------------------------------- TaskCallbacks (watched_tasks)
NoHandle == [state |-> "none", n |-> 0, val |-> Unset, by |-> "none", seen |-> FALSE]

\* A deferred fired with the task: it counts its firings.
Fulfil(hd, task, by) ==
    [hd EXCEPT !.state = "resolved", !.n = @ + 1, !.val = task.status, !.by = by]

\* The registry of one run: watched_tasks of every process (w) and the
\* handles handed out (h).
\* finish(task): pops all the pending handles of task.id and fires each
\* with the task; without handles it does nothing.
Finish(reg, p, task, by) ==
    [w |-> [reg.w EXCEPT ![p][task.id] = {}],
     h |-> [k \in Calls |-> IF k \in reg.w[p][task.id]
                            THEN Fulfil(reg.h[k], task, by) ELSE reg.h[k]]]

\* when_done(task): with a task that is done the local waiters of task.id
\* are resolved and the caller gets the task at once, nothing is registered;
\* otherwise a new pending handle is registered under task.id.
WhenDone(reg, p, k, task) ==
    IF Done(task) THEN Finish(reg, p, task, "when_done")
    ELSE [w |-> [reg.w EXCEPT ![p][task.id] = @ \cup {k}],
          h |-> [reg.h EXCEPT ![k] = [NoHandle EXCEPT !.state = "pending"]]]

\* ---------------------------------------------------------------- the 'task_done' channel
\* publish: one message for each subscribed process.
Publish(ib, sub, id) ==
    [p \in Procs |-> IF p \in sub THEN [ib[p] EXCEPT ![id] = @ + 1] ELSE ib[p]]

\* ---------------------------------------------------------------- coroutines
NoRet == [kind |-> "none", id |-> 0, status |-> Unset, n |-> 0]
RetAbsent == [NoRet EXCEPT !.kind = "absent"]
RetId(id) == [NoRet EXCEPT !.kind = "id", !.id = id]
RetTask(task) == [NoRet EXCEPT !.kind = "task", !.id = task.id, !.status = task.status]
RetCount(n) == [NoRet EXCEPT !.kind = "count", !.n = n]
RetError == [NoRet EXCEPT !.kind = "error"]

NoSnap == [i \in Ids |-> NoRec]

NewCo == [op |-> "none", proc |-> 0, pc |-> "new", id |-> 0, ids |-> {},
          explicit |-> FALSE, whenDone |-> FALSE, params |-> NoParams,
          snap |-> NoSnap, tag |-> 0]

\* Calls are numbered in the order they start, and so are callbacks.
Fresh(k) == k \in Calls /\ co[k].pc = "new" /\ \A j \in 1..(k - 1) : co[j].pc # "new"

FreshCallback(k) ==
    k \in Callbacks /\ co[k].pc = "new" /\ \A j \in (MaxOps + 1)..(k - 1) : co[j].pc # "new"

\* Processes are alike: they are numbered in the order they first subscribe.
Starters == { p \in Procs : \A q \in 1..(p - 1) : q \in subscribed }

Begin(op, p, pc) == [NewCo EXCEPT !.op = op, !.proc = p, !.pc = pc]

\* A call that has returned holds no state any more.
DoneCo == [NewCo EXCEPT !.pc = "done"]

\* The call that returned last, with its arguments and its return value.
NoLast == [op |-> "none", proc |-> 0, id |-> 0, explicit |-> FALSE, whenDone |-> FALSE,
           tag |-> 0, ret |-> NoRet]

Returned(c, ret) ==
    [op |-> c.op, proc |-> c.proc, id |-> c.id, explicit |-> c.explicit,
     whenDone |-> c.whenDone, tag |-> c.tag, ret |-> ret]

\* ---------------------------------------------------------------- initial state
\* Backends just constructed: nothing watched, nothing subscribed, no message
\* in flight, an empty queue.  The store is shared and persistent: each id has
\* no record or a record that an earlier save_task created as QUEUED.
QueuedRec == [status |-> QUEUED, result |-> Unset, meta |-> {}]

Init ==
    /\ store \in [Ids -> {NoRec, QueuedRec}]
    /\ queue = << >>
    /\ inbox = [p \in Procs |-> [i \in Ids |-> 0]]
    /\ subscribed = {}
    /\ watched = [p \in Procs |-> [i \in Ids |-> {}]]
    /\ handle = [k \in Calls |-> NoHandle]
    /\ co = [k \in Ops |-> NewCo]
    /\ last = NoLast
    /\ pushed = [k \in Calls |-> 0]
    /\ delivered = [k \in Calls |-> 0]
    /\ order = << >>
    /\ touched = {}

\* ---------------------------------------------------------------- put_task
\* A put_task that goes on without a record, and so creates one.
PutReadCreate(k) ==
    /\ Fresh(k)
    /\ \E p \in Starters, id \in Ids :
         /\ co' = [co EXCEPT ![k] = [Begin("put", p, "put_save") EXCEPT
                                        !.id = id, !.snap[id] = GetRecord(store, id)]]
         /\ subscribed' = subscribed \cup {p}
    /\ UNCHANGED <<store, queue, inbox, watched, handle, last, pushed, delivered, order, touched>>

\* task_manager() and _get_task(task_id): the process subscribes to
\* 'task_done' and loads the record; without a record the call returns
\* nothing.
PutRead(k) ==
    /\ Fresh(k)
    /\ \E p \in Starters, id \in Ids :
         LET r == GetRecord(store, id)
             c == [Begin("put", p, "put_save") EXCEPT !.id = id, !.snap[id] = r]
         IN /\ IF Present(r)
               THEN co' = [co EXCEPT ![k] = c] /\ last' = last
               ELSE co' = [co EXCEPT ![k] = DoneCo] /\ last' = Returned(c, RetAbsent)
            /\ subscribed' = subscribed \cup {p}
    /\ UNCHANGED <<store, queue, inbox, watched, handle, pushed, delivered, order, touched>>

\* A put_task that pushes the id without saving the record first.
PutSaveSkip(k) ==
    /\ co[k].pc = "put_save"
    /\ co' = [co EXCEPT ![k].pc = "put_push"]
    /\ UNCHANGED <<store, queue, inbox, subscribed, watched, handle, last, pushed, delivered,
                   order, touched>>

\* task_data.status = QUEUED; task_data.save().
PutSave(k) ==
    /\ co[k].pc = "put_save"
    /\ LET id == co[k].id
           r == SetQueued(co[k].snap[id])
       IN /\ store' = [store EXCEPT ![id] = r]
          /\ co' = [co EXCEPT ![k].pc = "put_push"]
    /\ UNCHANGED <<queue, inbox, subscribed, watched, handle, last, pushed, delivered, order, touched>>

\* task_manager.queue.push_back(task_data.id), then the id is returned.
PutPush(k) ==
    /\ co[k].pc = "put_push"
    /\ queue' = PushBack(queue, co[k].id, k)
    /\ co' = [co EXCEPT ![k] = DoneCo]
    /\ last' = Returned(co[k], RetId(co[k].id))
    /\ pushed' = [pushed EXCEPT ![k] = co[k].id]
    /\ order' = Append(order, k)
    /\ UNCHANGED <<store, inbox, subscribed, watched, handle, delivered, touched>>

\* ---------------------------------------------------------------- get_task
\* Without task_id: block_pop_front(timeout).  It hands over the front entry,
\* or times out on an empty queue and the call returns nothing.
GetPop(k) ==
    /\ Fresh(k)
    /\ \E p \in Starters, wd \in BOOLEAN :
         LET c == [Begin("get", p, "get_read") EXCEPT !.whenDone = wd]
         IN /\ IF queue # << >>
               THEN /\ co' = [co EXCEPT ![k] = [c EXCEPT !.id = Head(queue).id,
                                                         !.tag = Head(queue).push]]
                    /\ queue' = PopFront(queue)
                    /\ delivered' = [delivered EXCEPT ![Head(queue).push] = @ + 1]
                    /\ order' = Without(order, Head(queue).push)
                    /\ last' = last
               ELSE /\ co' = [co EXCEPT ![k] = DoneCo]
                    /\ last' = Returned(c, RetAbsent)
                    /\ UNCHANGED <<queue, delivered, order>>
            /\ subscribed' = subscribed \cup {p}
    /\ UNCHANGED <<store, inbox, watched, handle, pushed, touched>>

\* _get_task(task_id) for the id that was popped.
GetRead(k) ==
    /\ co[k].pc = "get_read"
    /\ co' = [co EXCEPT ![k].pc = "get_cont",
                        ![k].snap[co[k].id] = GetRecord(store, co[k].id)]
    /\ UNCHANGED <<store, queue, inbox, subscribed, watched, handle, last, pushed, delivered, order, touched>>

\* A get_task with task_id that takes the front entry off the queue as well.
GetReadExplicitPops(k) ==
    /\ Fresh(k)
    /\ \E p \in Starters, id \in Ids, wd \in BOOLEAN :
         /\ co' = [co EXCEPT ![k] = [Begin("get", p, "get_cont") EXCEPT
                                        !.id = id, !.explicit = TRUE, !.whenDone = wd,
                                        !.snap[id] = GetRecord(store, id)]]
         /\ subscribed' = subscribed \cup {p}
    /\ queue' = IF queue = << >> THEN queue ELSE PopFront(queue)
    /\ UNCHANGED <<store, inbox, watched, handle, last, pushed, delivered, order, touched>>

\* With task_id: the queue is skipped and the record is loaded.
GetReadExplicit(k) ==
    /\ Fresh(k)
    /\ \E p \in Starters, id \in Ids, wd \in BOOLEAN :
         /\ co' = [co EXCEPT ![k] = [Begin("get", p, "get_cont") EXCEPT
                                        !.id = id, !.explicit = TRUE, !.whenDone = wd,
                                        !.snap[id] = GetRecord(store, id)]]
         /\ subscribed' = subscribed \cup {p}
    /\ UNCHANGED <<store, queue, inbox, watched, handle, last, pushed, delivered, order, touched>>

\* A call suspended on its pending handle: only the handle matters.
Waiting(c) == [NewCo EXCEPT !.op = "get", !.pc = "waiting", !.proc = c.proc, !.id = c.id]

\* A get_task that goes on without a record: it hands a task without fields
\* to when_done, or returns it.
GetContAnyRecord(k) ==
    /\ co[k].pc = "get_cont"
    /\ LET id == co[k].id
           p == co[k].proc
           task == AsTask(id, co[k].snap[id])
       IN IF co[k].whenDone
          THEN /\ watched' = WhenDone([w |-> watched, h |-> handle], p, k, task).w
               /\ handle' = WhenDone([w |-> watched, h |-> handle], p, k, task).h
               /\ IF Done(task)
                  THEN co' = [co EXCEPT ![k] = DoneCo] /\ last' = Returned(co[k], RetTask(task))
                  ELSE co' = [co EXCEPT ![k] = Waiting(co[k])] /\ last' = last
          ELSE /\ co' = [co EXCEPT ![k] = DoneCo]
               /\ last' = Returned(co[k], RetTask(task))
               /\ UNCHANGED <<watched, handle>>
    /\ touched' = touched \ {co[k].tag}
    /\ UNCHANGED <<store, queue, inbox, subscribed, pushed, delivered, order>>

\* The code after the record arrived: nothing is returned without a record;
\* with when_done the task is handed to watched_tasks.when_done, and a task
\* that is done is returned at once while the call stays suspended on a
\* handle that is pending; without when_done the task is returned.
GetCont(k) ==
    /\ co[k].pc = "get_cont"
    /\ LET id == co[k].id
           p == co[k].proc
           r == co[k].snap[id]
           task == AsTask(id, r)
       IN IF ~Present(r)
          THEN /\ co' = [co EXCEPT ![k] = DoneCo]
               /\ last' = Returned(co[k], RetAbsent)
               /\ UNCHANGED <<watched, handle>>
          ELSE IF co[k].whenDone
          THEN /\ watched' = WhenDone([w |-> watched, h |-> handle], p, k, task).w
               /\ handle' = WhenDone([w |-> watched, h |-> handle], p, k, task).h
               /\ IF Done(task)
                  THEN co' = [co EXCEPT ![k] = DoneCo] /\ last' = Returned(co[k], RetTask(task))
                  ELSE co' = [co EXCEPT ![k] = Waiting(co[k])] /\ last' = last
          ELSE /\ co' = [co EXCEPT ![k] = DoneCo]
               /\ last' = Returned(co[k], RetTask(task))
               /\ UNCHANGED <<watched, handle>>
    /\ touched' = touched \ {co[k].tag}
    /\ UNCHANGED <<store, queue, inbox, subscribed, pushed, delivered, order>>

\* ---------------------------------------------------------------- num_tasks
NumTasks(k) ==
    /\ Fresh(k)
    /\ \E p \in Starters :
         /\ co' = [co EXCEPT ![k] = DoneCo]
         /\ last' = Returned(Begin("num", p, "done"), RetCount(Len(queue)))
         /\ subscribed' = subscribed \cup {p}
    /\ UNCHANGED <<store, queue, inbox, watched, handle, pushed, delivered, order, touched>>

\* ---------------------------------------------------------------- save_task
\* task_manager() and _get_task(task_id).
SaveRead(k) ==
    /\ Fresh(k)
    /\ \E p \in Starters, id \in Ids, ps \in SaveParams :
         /\ co' = [co EXCEPT ![k] = [Begin("save", p, "save_write") EXCEPT
                                        !.id = id, !.params = ps,
                                        !.snap[id] = GetRecord(store, id)]]
         /\ subscribed' = subscribed \cup {p}
    /\ UNCHANGED <<store, queue, inbox, watched, handle, last, pushed, delivered, order, touched>>

\* The record save_task writes: the loaded record with the keywords applied,
\* or a new record when none was loaded.
SaveRecord(r, ps) == IF Present(r) THEN ApplyParams(r, ps) ELSE NewRecord(ps)

\* Bookkeeping of the model: the handles pending on id, in any process, have
\* seen a save write a terminal status.
MarkSeen(h, w, id, r) ==
    [j \in Calls |-> IF r.status \in Terminal /\ \E p \in Procs : j \in w[p][id]
                   THEN [h[j] EXCEPT !.seen = TRUE] ELSE h[j]]

\* task_data.save() or task_manager.new(id=task_id, **params).  A call that
\* the constructor refuses ends there, with the error.
SaveWrite(k) ==
    /\ co[k].pc = "save_write"
    /\ LET id == co[k].id
           r == SaveRecord(co[k].snap[id], co[k].params)
       IN \E out \in NewOutcomes(co[k].snap[id], co[k].params) :
            IF out = "refused"
            THEN /\ co' = [co EXCEPT ![k] = DoneCo]
                 /\ last' = Returned(co[k], RetError)
                 /\ UNCHANGED <<store, handle, touched>>
            ELSE /\ store' = [store EXCEPT ![id] = r]
                 /\ co' = [co EXCEPT ![k].pc = "save_cont"]
                 /\ handle' = MarkSeen(handle, watched, id, r)
                 /\ touched' = touched \cup Underway({id})
                 /\ last' = last
    /\ UNCHANGED <<queue, inbox, subscribed, watched, pushed, delivered, order>>

\* The messages save_task sends once the record is written.
SavePublish(ib, sub, task) == IF Done(task) THEN Publish(ib, sub, task.id) ELSE ib

\* The code after the write, on the record the call holds (the one it wrote):
\* watched_tasks.when_done(task), publish on 'task_done' if the task is done,
\* return the id.
SaveCont(k) ==
    /\ co[k].pc = "save_cont"
    /\ LET id == co[k].id
           p == co[k].proc
           task == AsTask(id, SaveRecord(co[k].snap[id], co[k].params))
       IN /\ watched' = WhenDone([w |-> watched, h |-> handle], p, k, task).w
          /\ handle' = WhenDone([w |-> watched, h |-> handle], p, k, task).h
          /\ inbox' = SavePublish(inbox, subscribed, task)
          /\ co' = [co EXCEPT ![k] = DoneCo]
          /\ last' = Returned(co[k], RetId(id))
    /\ UNCHANGED <<store, queue, subscribed, pushed, delivered, order, touched>>

\* ---------------------------------------------------------------- delete_tasks
\* Without ids nothing is done and 0 is returned; otherwise
\* tasks = task_manager.filter(id=ids).all().
DeleteRead(k) ==
    /\ Fresh(k)
    /\ \E p \in Starters, ids \in SUBSET Ids :
         LET c == [Begin("delete", p, "del_delete") EXCEPT !.ids = ids]
         IN IF ids = {}
            THEN /\ co' = [co EXCEPT ![k] = DoneCo]
                 /\ last' = Returned(c, RetCount(0))
                 /\ subscribed' = subscribed
            ELSE /\ co' = [co EXCEPT ![k] = [c EXCEPT !.snap =
                               [i \in Ids |-> IF i \in ids THEN GetRecord(store, i) ELSE NoRec]]]
                 /\ last' = last
                 /\ subscribed' = subscribed \cup {p}
    /\ UNCHANGED <<store, queue, inbox, watched, handle, pushed, delivered, order, touched>>

\* A delete that takes the ids of the records off the queue as well.
DeleteDeleteUnqueue(k) ==
    /\ co[k].pc = "del_delete"
    /\ store' = [i \in Ids |-> IF i \in co[k].ids THEN NoRec ELSE store[i]]
    /\ queue' = SelectSeq(queue, LAMBDA e : e.id \notin co[k].ids)
    /\ co' = [co EXCEPT ![k].pc = "del_cont"]
    /\ touched' = touched \cup Underway(co[k].ids)
    /\ UNCHANGED <<inbox, subscribed, watched, handle, last, pushed, delivered, order>>

\* task_manager.filter(id=ids).delete().
DeleteDelete(k) ==
    /\ co[k].pc = "del_delete"
    /\ store' = [i \in Ids |-> IF i \in co[k].ids THEN NoRec ELSE store[i]]
    /\ co' = [co EXCEPT ![k].pc = "del_cont"]
    /\ touched' = touched \cup Underway(co[k].ids)
    /\ UNCHANGED <<queue, inbox, subscribed, watched, handle, last, pushed, delivered, order>>

\* The ids of the records the filter returned.
Found(c) == { i \in Ids : Present(c.snap[i]) }

\* A delete_tasks that counts the records and forgets to finish them.
DeleteFinishNone(reg, p, c, todo) == reg

\* for task_data in tasks: watched_tasks.finish(task_data.as_task()).
RECURSIVE DeleteFinish(_, _, _, _)
DeleteFinish(reg, p, c, todo) ==
    IF todo = {} THEN reg
    ELSE LET i == CHOOSE j \in todo : TRUE
         IN DeleteFinish(Finish(reg, p, AsTask(i, c.snap[i]), "delete"), p, c, todo \ {i})

\* deleted += 1 for each of them.
DeleteCount(c) == Cardinality(Found(c))

\* The loop over the records read before the delete, and the count returned.
DeleteCont(k) ==
    /\ co[k].pc = "del_cont"
    /\ LET reg == DeleteFinish([w |-> watched, h |-> handle], co[k].proc, co[k], Found(co[k]))
       IN watched' = reg.w /\ handle' = reg.h
    /\ co' = [co EXCEPT ![k] = DoneCo]
    /\ last' = Returned(co[k], RetCount(DeleteCount(co[k])))
    /\ UNCHANGED <<store, queue, inbox, subscribed, pushed, delivered, order, touched>>

\* ---------------------------------------------------------------- write (pubsub client)
\* A 'task_done' message reaches a subscribed process, which calls
\* write(task_id); write loads the record with _get_task.
WriteRead(k) ==
    /\ FreshCallback(k)
    /\ \E p \in Procs, id \in Ids :
         /\ inbox[p][id] > 0
         /\ inbox' = [inbox EXCEPT ![p][id] = @ - 1]
         /\ co' = [co EXCEPT ![k] = [Begin("write", p, "write_cont") EXCEPT
                                        !.id = id, !.snap[id] = GetRecord(store, id)]]
    /\ UNCHANGED <<store, queue, subscribed, watched, handle, last, pushed, delivered, order, touched>>

\* A write that fires the handles of the id and leaves them in watched_tasks.
WriteFinishNoPop(reg, p, id, r) ==
    IF Present(r) THEN [w |-> reg.w, h |-> Finish(reg, p, AsTask(id, r), "write").h] ELSE reg

\* if task_data: self.watched_tasks.finish(task_data.as_task()).
WriteFinish(reg, p, id, r) ==
    IF Present(r) THEN Finish(reg, p, AsTask(id, r), "write") ELSE reg

\* The code after the record arrived.
WriteCont(k) ==
    /\ co[k].pc = "write_cont"
    /\ LET reg == WriteFinish([w |-> watched, h |-> handle], co[k].proc, co[k].id,
                              co[k].snap[co[k].id])
       IN watched' = reg.w /\ handle' = reg.h
    /\ co' = [co EXCEPT ![k] = DoneCo]
    /\ last' = Returned(co[k], NoRet)
    /\ UNCHANGED <<store, queue, inbox, subscribed, pushed, delivered, order, touched>>

\* ---------------------------------------------------------------- specification
Next ==
    \E k \in Ops :
        \/ PutRead(k) \/ PutSave(k) \/ PutPush(k)
        \/ GetPop(k) \/ GetRead(k) \/ GetReadExplicit(k) \/ GetCont(k)
        \/ NumTasks(k)
        \/ SaveRead(k) \/ SaveWrite(k) \/ SaveCont(k)
        \/ DeleteRead(k) \/ DeleteDelete(k) \/ DeleteCont(k)
        \/ WriteRead(k) \/ WriteCont(k)

Spec == Init /\ [][Next]_vars

\* ================================================================ claims

\* The place of a status in QUEUED -> STARTED -> {SUCCESS, FAILURE, REVOKED}.
Rank(st) == IF st = QUEUED THEN 0 ELSE IF st = STARTED THEN 1 ELSE 2

\* C1: the stored status of a record only advances through
\* QUEUED -> STARTED -> {SUCCESS, FAILURE, REVOKED}: no step of any call takes
\* a record back to an earlier status or changes a terminal status.
C1_StatusOnlyAdvances ==
    [][\A id \in Ids :
          (store[id].status \in Statuses /\ store'[id].status \in Statuses)
              => /\ Rank(store[id].status) <= Rank(store'[id].status)
                 /\ (store[id].status \in Terminal => store'[id].status = store[id].status)]_vars

\* A save_task call that loaded a terminal record and was given another status.
ChangesTerminal(c) ==
    /\ c.op = "save"
    /\ c.pc \in {"save_write", "save_cont"}
    /\ c.snap[c.id].status \in Terminal
    /\ c.params.status \notin {NoParam, c.snap[c.id].status}

\* C2: save_task on a terminal record with another status fails: none of its
\* steps changes the store or publishes, and it does not return the id.
C2_TerminalSaveRejected ==
    [][\A k \in Calls :
          (ChangesTerminal(co[k]) /\ co'[k] # co[k])
              => /\ store' = store
                 /\ inbox' = inbox
                 /\ ~(co'[k].pc = "done" /\ last'.ret.kind = "id")]_vars

\* The pushes that are in the queue.
Queued == { queue[i].push : i \in 1..Len(queue) }

\* C3: every id a put_task pushed is either still in the queue and handed to
\* nobody, or out of the queue and handed to exactly one dequeuer, which
\* holds (and returns) the id that was pushed.
C3_EachPushDeliveredOnce ==
    /\ \A t \in Calls :
          pushed[t] # 0 =>
              \/ t \in Queued /\ delivered[t] = 0
              \/ t \notin Queued /\ delivered[t] = 1
    /\ \A t \in Calls : pushed[t] = 0 => delivered[t] = 0 /\ t \notin Queued
    /\ \A k \in Calls : co[k].tag # 0 => co[k].id = pushed[co[k].tag]
    /\ (last.op = "get" /\ last.tag # 0 /\ last.ret.kind = "task")
           => last.ret.id = pushed[last.tag]

\* A dequeuer got a pushed id and returned its task while another dequeuer
\* found the queue empty.
C3_Witness ==
    /\ last.op = "get" /\ ~last.explicit /\ last.ret.kind = "absent" /\ last.tag = 0
    /\ queue = << >>
    /\ \E k \in Calls : co[k].op = "get" /\ co[k].tag # 0 /\ delivered[co[k].tag] = 1

\* C4: a wait registered while the task is not terminal and followed by a
\* save that writes a terminal status is resolved, by the completion message,
\* with a terminal record; and a wait on a task that is already terminal
\* returns the task at once and leaves no entry for it in watched_tasks.
C4_WaitResolvesTerminal ==
    /\ [](\A k \in Calls :
             (handle[k].state = "resolved" /\ handle[k].seen /\ handle[k].by # "delete")
                 => handle[k].val \in Terminal)
    /\ [][\A k \in Calls :
             (co[k].pc = "get_cont" /\ co[k].whenDone /\ co'[k] # co[k]
                  /\ co[k].snap[co[k].id].status \in Terminal)
                 => /\ co'[k].pc = "done"
                    /\ last'.ret.kind = "task" /\ last'.ret.status \in Terminal
                    /\ watched'[co[k].proc][co[k].id] = {}]_vars

\* A save_task call that has written, or is about to write, a terminal
\* status for id: its continuation will publish.
WillPublish(c, id) ==
    /\ c.op = "save" /\ c.id = id
    /\ c.pc \in {"save_write", "save_cont"}
    /\ Done(AsTask(id, SaveRecord(c.snap[id], c.params)))

\* A run of write in process p that has loaded a record of id: its
\* continuation will finish the handles of id.
WillFinish(c, p, id) ==
    c.op = "write" /\ c.pc = "write_cont" /\ c.proc = p /\ c.id = id /\ Present(c.snap[id])

\* C5: no lost wakeup: a get_task(id, when_done) waiter that is registered
\* while the stored record is terminal still has a wakeup coming: a save about
\* to publish, a message for the id on its way to the process, or a run of
\* write about to finish the id.
C5_NoLostWakeup ==
    \A k \in Calls, p \in Procs, id \in Ids :
        (co[k].pc = "waiting" /\ k \in watched[p][id] /\ store[id].status \in Terminal)
            => \/ inbox[p][id] > 0
               \/ \E j \in Calls : WillPublish(co[j], id)
               \/ \E c \in Callbacks : WillFinish(co[c], p, id)

\* C6: a message for an id is published only by a save_task that has written
\* a terminal status for it, after the write; and while a message for the id
\* is in the channel and its record is terminal, the record stays terminal
\* unless it is deleted.
C6_PublishAfterTerminalWrite ==
    [][\A p \in Procs, id \in Ids :
          /\ inbox'[p][id] > inbox[p][id]
                => \E k \in Calls : co[k].pc = "save_cont" /\ co'[k].pc = "done"
                                      /\ WillPublish(co[k], id)
          /\ (inbox[p][id] > 0 /\ store[id].status \in Terminal)
                => (~Present(store'[id]) \/ store'[id].status \in Terminal)]_vars

\* The get_task(when_done) callers of process p that wait on id.
Waiters(p, id) == { k \in watched[p][id] : co[k].pc = "waiting" }

\* C7: a run of write that loaded no record, or a record that is not
\* terminal, changes nothing: every waiter of the id stays registered and
\* unresolved.
C7_WriteOnlyResolvesTerminal ==
    [][\A c \in Callbacks :
          (co[c].pc = "write_cont" /\ co'[c].pc = "done"
               /\ co[c].snap[co[c].id].status \notin Terminal)
              => \A k \in Waiters(co[c].proc, co[c].id) :
                     k \in watched'[co[c].proc][co[c].id] /\ handle'[k].state = "pending"]_vars

\* C8: when delete_tasks returns, no handle is left in its process for any
\* record it read before deleting: all of them are resolved.
C8_DeleteReleasesWaiters ==
    [][\A k \in Calls :
          (co[k].pc = "del_cont" /\ co'[k].pc = "done")
              => \A i \in Found(co[k]) :
                     /\ watched'[co[k].proc][i] = {}
                     /\ \A j \in watched[co[k].proc][i] : handle'[j].state = "resolved"]_vars

\* A get_task(when_done) caller was released by the delete_tasks that
\* returned last.
C8_Witness ==
    /\ last.op = "delete" /\ last.ret.n >= 1
    /\ \E k \in Calls :
          /\ co[k].pc = "waiting" /\ co[k].proc = last.proc
          /\ handle[k].state = "resolved" /\ handle[k].by = "delete"

\* The run of write that takes a step, as it is after its first step.
Running(c) == IF co[c].pc = "new" THEN co'[c] ELSE co[c]

Started(k) == IF co'[k].pc = "done" THEN last' ELSE co'[k]

\* C10: put_task of an id without a record returns nothing and has no
\* effect: no record, no push, no message, no handle touched.
C10_PutAbsentNoop ==
    [][\A k \in Calls :
          (co[k].pc = "new" /\ co'[k].pc # "new" /\ Started(k).op = "put"
               /\ ~Present(store[Started(k).id]))
              => /\ co'[k].pc = "done"
                 /\ last'.ret.kind = "absent"
                 /\ UNCHANGED <<store, queue, inbox, watched, handle>>]_vars

\* put_task returned nothing for an id that has no record.
C10_Witness ==
    last.op = "put" /\ last.ret.kind = "absent" /\ ~Present(store[last.id])

\* C11: a get_task without task_id returns nothing, at once, when
\* block_pop_front times out on an empty queue, and returns nothing when the
\* id it popped has no record; with when_done too, and then no handle is
\* registered and watched_tasks is left as it is.
C11_DequeueAbsent ==
    [][\A k \in Calls :
          /\ (co[k].pc = "new" /\ co'[k].pc # "new" /\ queue = << >>)
                => ~(co'[k].op = "get" /\ ~co'[k].explicit)
          /\ (co[k].pc = "new" /\ co'[k].pc = "done" /\ last'.op = "get")
                => /\ queue = << >> /\ last'.ret = RetAbsent
                   /\ UNCHANGED <<store, queue, inbox, watched, handle>>
          /\ (co[k].pc = "get_cont" /\ ~co[k].explicit /\ co'[k] # co[k]
                  /\ ~Present(co[k].snap[co[k].id]))
                => /\ co'[k].pc = "done"
                   /\ last' = Returned(co[k], RetAbsent)
                   /\ UNCHANGED <<store, queue, inbox, watched, handle>>]_vars

\* A get_task(when_done=True) popped an id that a put_task had pushed and
\* whose record was deleted since, and returned nothing.
C11_Witness ==
    /\ last.op = "get" /\ ~last.explicit /\ last.whenDone
    /\ last.tag # 0 /\ pushed[last.tag] = last.id
    /\ last.ret = RetAbsent
    /\ \A p \in Procs : watched[p][last.id] = {}

\* C12: a record that appears in the store has status QUEUED, whichever
\* call created it and whatever status, if any, the call was given.
C12_CreatedQueued ==
    [][\A id \in Ids :
          (~Present(store[id]) /\ Present(store'[id])) => store'[id].status = QUEUED]_vars

\* C13: save_task writes a record for the id, created if there was none,
\* on which every keyword that is a field of TaskData is set and every other
\* keyword is in meta, next to the meta keys the record had; it refuses and
\* drops nothing, and it returns the id with that record in the store.
C13_SaveSetsFields ==
    [][\A k \in Calls :
          /\ (co[k].pc = "save_write" /\ co'[k] # co[k])
                => LET id == co[k].id
                       ps == co[k].params
                   IN /\ co'[k].pc = "save_cont"
                      /\ Present(store'[id])
                      /\ ps.status # NoParam => store'[id].status = ps.status
                      /\ ps.result # NoParam => store'[id].result = ps.result
                      /\ ps.extra # NoParam => ps.extra \in store'[id].meta
                      /\ co[k].snap[id].meta \subseteq store'[id].meta
          /\ (co[k].pc = "save_cont" /\ co'[k] # co[k])
                => /\ co'[k].pc = "done"
                   /\ last'.op = "save" /\ last'.ret = RetId(co[k].id)
                   /\ store' = store]_vars

\* The records a delete_tasks call removes when its delete runs.
Removed(c) == { i \in c.ids : Present(store[i]) }

\* C14: delete_tasks counts, and finishes the handles of, exactly the records
\* that its own delete removes from the store, whatever other calls do
\* between its read and its delete; without ids it returns 0 and changes
\* nothing.
C14_DeleteCountsRemoved ==
    [][\A k \in Calls :
          /\ (co[k].pc = "del_delete" /\ co'[k].pc = "del_cont")
                => Found(co[k]) = Removed(co[k])
          /\ (co[k].pc = "del_cont" /\ co'[k].pc = "done")
                => /\ last'.ret = RetCount(Cardinality(Found(co[k])))
                   /\ \A i \in Ids \ Found(co[k]) :
                          watched'[co[k].proc][i] = watched[co[k].proc][i]
          /\ (co[k].pc = "new" /\ co'[k].pc = "done" /\ last'.op = "delete")
                => /\ last'.ret = RetCount(0)
                   /\ UNCHANGED <<store, queue, inbox, subscribed, watched, handle>>]_vars

\* C15: in every state of the store a record whose status is QUEUED or
\* STARTED carries no result.  (A terminal record always has its result set,
\* possibly to null: a result that was never set reads as null.)
C15_NoResultBeforeTerminal ==
    \A id \in Ids : store[id].status \in NonTerminal => store[id].result = Unset

\* Call k takes a step of get_task.
GetStep(k) ==
    /\ co'[k] # co[k]
    /\ \/ co[k].op = "get"
       \/ co'[k].op = "get"
       \/ co[k].pc = "new" /\ co'[k].pc = "done" /\ last'.op = "get"

\* C16: a get_task with task_id leaves the queue as it is, whether or not
\* the id is in it, and without when_done returns the record it loaded by
\* id, whatever its status; no step of any get_task changes the store.
C16_ExplicitGetSkipsQueue ==
    [][\A k \in Calls :
          GetStep(k)
              => /\ store' = store
                 /\ (co[k].explicit \/ co'[k].explicit) => queue' = queue
                 /\ (co[k].pc = "get_cont" /\ co[k].explicit /\ ~co[k].whenDone
                         /\ Present(co[k].snap[co[k].id]))
                        => /\ co'[k].pc = "done"
                           /\ last'.ret = RetTask(AsTask(co[k].id, co[k].snap[co[k].id]))]_vars

\* A get_task with task_id returned the task while the id was in the queue.
C16_Witness ==
    /\ last.op = "get" /\ last.explicit /\ last.ret.kind = "task"
    /\ \E i \in 1..Len(queue) : queue[i].id = last.id

\* C17: put_task writes status QUEUED before it pushes the id, and returns
\* the id; a get_task, in any process, that popped one of its pushes loads a
\* record with status QUEUED, unless a save_task or a delete_tasks wrote the
\* record in between.
C17_QueuedBeforePush ==
    [][\A k \in Calls :
          /\ co'[k].pc = "put_push"
                => \/ co[k].pc = "put_push"
                   \/ co[k].pc = "put_save" /\ store'[co[k].id].status = QUEUED
          /\ (co[k].pc = "put_push" /\ co'[k] # co[k])
                => /\ co'[k].pc = "done" /\ last'.ret = RetId(co[k].id)
                   /\ Len(queue') = Len(queue) + 1
                   /\ queue'[Len(queue')].id = co[k].id
          /\ (co[k].pc = "get_read" /\ co'[k].pc = "get_cont" /\ co[k].tag \notin touched)
                => co'[k].snap[co[k].id].status = QUEUED]_vars

\* A get_task in one process loaded the QUEUED record of an id that a
\* put_task of another process had pushed, with no write in between.
C17_Witness ==
    \E k \in Calls :
        /\ co[k].op = "get" /\ co[k].pc = "get_cont" /\ co[k].tag # 0
        /\ co[k].tag \notin touched
        /\ co[k].snap[co[k].id].status = QUEUED
        /\ last.op = "put" /\ last.ret = RetId(co[k].id) /\ last.proc # co[k].proc

\* The pushes that no get_task has popped.
NotPopped == { t \in Calls : pushed[t] # 0 /\ delivered[t] = 0 }

\* C18: the queue is first in, first out: the push a get_task pops is the
\* earliest push not popped yet, so a push that completed before another
\* began is popped first; and num_tasks returns the number of pushes not
\* popped yet and changes neither the queue nor the store.
C18_QueueFifo ==
    [][/\ \A t \in Calls :
             delivered'[t] > delivered[t] => (order # << >> /\ t = Head(order))
       /\ \A k \in Calls :
             (co[k].pc = "new" /\ co'[k].pc = "done" /\ last'.op = "num")
                 => /\ last'.ret = RetCount(Cardinality(NotPopped))
                    /\ UNCHANGED <<store, queue, inbox, watched, handle>>]_vars

\* Two put_task calls pushed and one get_task popped: it holds the earlier
\* push, and the later push is still in the queue.
C18_Witness ==
    \E a, b \in Calls :
        /\ a < b /\ pushed[a] # 0 /\ pushed[b] # 0
        /\ delivered[a] = 1 /\ delivered[b] = 0
        /\ Len(queue) = 1 /\ queue[1].push = b
        /\ \E k \in Calls : co[k].op = "get" /\ co[k].tag = a

\* C19: in every state, every handle in watched_tasks of a process belongs
\* to a get_task(when_done) caller of that process that still waits on the
\* id; a save_task leaves no entry of its own.
C19_OnlyPendingWaits ==
    \A p \in Procs, id \in Ids :
        \A k \in watched[p][id] :
            co[k].op = "get" /\ co[k].pc = "waiting" /\ co[k].proc = p /\ co[k].id = id

\* Call k takes a step of delete_tasks.
DeleteStep(k) ==
    /\ co'[k] # co[k]
    /\ \/ co[k].op = "delete"
       \/ co'[k].op = "delete"
       \/ co[k].pc = "new" /\ co'[k].pc = "done" /\ last'.op = "delete"

\* C20: no step of delete_tasks changes the queue: the id of a deleted
\* record stays where it is and the size of the queue is the same; a
\* get_task that popped such an id and found no record returns nothing and
\* the id is not put back.
C20_DeleteKeepsQueue ==
    [][\A k \in Calls :
          /\ DeleteStep(k) => queue' = queue
          /\ (co[k].pc = "get_read" /\ co'[k] # co[k])
                => /\ queue' = queue
                   /\ ~Present(store[co[k].id]) => ~Present(co'[k].snap[co[k].id])
          /\ (co[k].pc = "get_cont" /\ co[k].tag # 0 /\ co'[k] # co[k]
                  /\ ~Present(co[k].snap[co[k].id]))
                => /\ last'.ret = RetAbsent
                   /\ queue' = queue]_vars

\* A delete_tasks has deleted the record of an id that is in the queue: the
\* entry is still there.
C20_Witness ==
    \E k \in Calls :
        /\ co[k].op = "delete" /\ co[k].pc = "del_cont"
        /\ \E i \in 1..Len(queue) :
              /\ queue[i].id \in Found(co[k])
              /\ ~Present(store[queue[i].id])

====
